---- MODULE Spec2Model ----
(***************************************************************************)
(* A model of HomeScreen (src/app/(tabs)/index.tsx): the React component   *)
(* state, the LiDAR start-up effect and its cleanup, and the takePicture   *)
(* capture / upload / detect / depth / speak cycle, split at its awaits.   *)
(*                                                                         *)
(* Numbers.  Bounding-box coordinates are fixed-point tenths (0.3 is 3),   *)
(* so a box area is in hundredths and twice a centre is in twentieths.     *)
(* Depth readings are hundredths of a unit (1.23 is 123).                  *)
(* Strings are TLA+ strings; template literals are built with \o.          *)
(***************************************************************************)
EXTENDS Integers, Sequences, FiniteSets, TLC

(***************************************************************************)
(* Bounds of the model.                                                    *)
(***************************************************************************)
\* takePicture invocations followed in one run
MaxCycles == 2
\* values Date.now() may return
MaxTimestamp == 2
\* longest label list drawn for the synthesis specification
MaxLabels == 4
\* largest bounding-box coordinate drawn, in tenths
MaxCoord == 10

(***************************************************************************)
(* JavaScript string helpers.                                              *)
(***************************************************************************)
UpperChars == "ABCDEFGHIJKLMNOPQRSTUVWXYZ"
LowerChars == "abcdefghijklmnopqrstuvwxyz"

\* the pairs <<upper-case letter, lower-case letter>>
CasePairs ==
    [i \in 1..Len(UpperChars) |-> <<SubSeq(UpperChars, i, i), SubSeq(LowerChars, i, i)>>]

\* String.prototype.toLowerCase on one character
LowerChar(c) ==
    IF \E i \in DOMAIN CasePairs : CasePairs[i][1] = c
    THEN CasePairs[CHOOSE i \in DOMAIN CasePairs : CasePairs[i][1] = c][2]
    ELSE c

RECURSIVE ToLowerCase(_)
ToLowerCase(s) ==
    IF Len(s) = 0 THEN ""
    ELSE LowerChar(SubSeq(s, 1, 1)) \o ToLowerCase(SubSeq(s, 2, Len(s)))

\* String.prototype.includes
Includes(s, sub) ==
    \E i \in 1..(Len(s) - Len(sub) + 1) : SubSeq(s, i, i + Len(sub) - 1) = sub

Digits == <<"0", "1", "2", "3", "4", "5", "6", "7", "8", "9">>

RECURSIVE NatToString(_)
NatToString(n) ==
    IF n < 10 THEN Digits[n + 1]
    ELSE NatToString(n \div 10) \o Digits[(n % 10) + 1]

\* Number-to-string of a non-negative number given in tenths (12 is "1.2", 20 is "2")
TenthsToString(t) ==
    NatToString(t \div 10) \o (IF t % 10 = 0 THEN "" ELSE "." \o Digits[(t % 10) + 1])

\* Math.round(realDistance * 10) of a reading in hundredths: the nearest tenth, halves up
RoundToTenths(h) == (h + 5) \div 10

(***************************************************************************)
(* Values.  An optional field (undefined, null) is a tuple of length zero  *)
(* or one.  A label is [Name, Instances]; Instances, when present, is a    *)
(* sequence of instances [BoundingBox]; a box is [Left, Top, Width,        *)
(* Height] in tenths (an absent coordinate reads as 0 through `|| 0`).     *)
(***************************************************************************)
Null == <<>>
Some(v) == <<v>>

Min(a, b) == IF a <= b THEN a ELSE b

(***************************************************************************)
(* The description synthesis of takePicture.                               *)
(***************************************************************************)
excludeCategories ==
    << "interior design", "architecture", "room", "indoors", "outdoors",
       "building", "floor", "wall", "ceiling", "flooring", "hardwood",
       "wood", "lighting", "urban", "city", "nature", "scenery", "landscape",
       "housing", "shelter", "home decor", "art", "modern art", "abstract" >>

\* label.Name?.toLowerCase() || fallback
LowerName(label, fallback) ==
    IF label.Name = Null THEN fallback
    ELSE IF ToLowerCase(label.Name[1]) = "" THEN fallback
    ELSE ToLowerCase(label.Name[1])

\* label.Instances && label.Instances.length > 0
HasInstances(label) ==
    label.Instances # Null /\ Len(label.Instances[1]) > 0

\* a variant of the filter that matches the denylist without lowercasing the name
IsPhysicalObject_CaseSensitive(label) ==
    LET name == IF label.Name = Null THEN "" ELSE label.Name[1]
    IN  IF \E i \in 1..Len(excludeCategories) : Includes(name, excludeCategories[i])
        THEN FALSE
        ELSE HasInstances(label)

\* the predicate of allLabels.filter
IsPhysicalObject(label) ==
    LET name == LowerName(label, "")
    IN  IF \E i \in 1..Len(excludeCategories) : Includes(name, excludeCategories[i])
        THEN FALSE
        ELSE HasInstances(label)

physicalObjects(allLabels) == SelectSeq(allLabels, IsPhysicalObject)

\* physicalObjects.slice(0, 3)
topObjects(physical) == SubSeq(physical, 1, Min(3, Len(physical)))

\* a variant of the bucket that sizes the box by its width alone
objectDistance_WidthOnly(box) ==
    LET boxArea == box.Width * 10
    IN  IF boxArea > 30 THEN "2 to 3 feet"
        ELSE IF boxArea > 15 THEN "4 to 6 feet"
        ELSE IF boxArea > 8 THEN "8 to 10 feet"
        ELSE IF boxArea > 4 THEN "12 to 15 feet"
        ELSE "more than 15 feet"

\* the size-in-frame distance bucket of a box
objectDistance(box) ==
    LET boxArea == box.Width * box.Height
    IN  IF boxArea > 30 THEN "2 to 3 feet"
        ELSE IF boxArea > 15 THEN "4 to 6 feet"
        ELSE IF boxArea > 8 THEN "8 to 10 feet"
        ELSE IF boxArea > 4 THEN "12 to 15 feet"
        ELSE "more than 15 feet"

\* twice the centre of a box, in twentieths, so that 0.3 is 6 and 0.7 is 14
centerX2(box) == 2 * box.Left + box.Width
centerY2(box) == 2 * box.Top + box.Height

\* a variant of horizontal whose thresholds are inclusive
horizontal_Inclusive(box) ==
    IF centerX2(box) <= 6 THEN "on your left"
    ELSE IF centerX2(box) >= 14 THEN "on your right"
    ELSE "in front of you"

horizontal(box) ==
    IF centerX2(box) < 6 THEN "on your left"
    ELSE IF centerX2(box) > 14 THEN "on your right"
    ELSE "in front of you"

vertical(box) ==
    IF centerY2(box) < 6 THEN "above"
    ELSE IF centerY2(box) > 14 THEN "below"
    ELSE ""

direction(box) ==
    IF vertical(box) # "" /\ horizontal(box) # "in front of you"
    THEN vertical(box) \o " and " \o horizontal(box)
    ELSE IF vertical(box) # ""
    THEN vertical(box) \o " " \o horizontal(box)
    ELSE horizontal(box)

\* the box the forEach body reads: label.Instances[0].BoundingBox, when there is one
FirstBox(label) ==
    IF HasInstances(label) THEN label.Instances[1][1].BoundingBox ELSE Null

\* JavaScript !realDistance: null and 0 are falsy
NotRealDistance(realDistance) ==
    realDistance = Null \/ realDistance[1] = 0

\* the forEach body's objectDistance and direction for one label: '' without a box
ObjectDistanceOf(label) ==
    IF FirstBox(label) = Null THEN "" ELSE objectDistance(FirstBox(label)[1])

ObjectDirectionOf(label) ==
    IF FirstBox(label) = Null THEN "" ELSE direction(FirstBox(label)[1])

\* what the forEach body appends to description for one of topObjects
ObjectClause(label, index, realDistance) ==
    LET name == LowerName(label, "object")
        dist == ObjectDistanceOf(label)
        dir  == ObjectDirectionOf(label)
    IN  (IF index = 0 THEN "I see a " \o name ELSE ", a " \o name)
        \o (IF dist # "" /\ NotRealDistance(realDistance)
            THEN " about " \o dist \o " away" ELSE "")
        \o (IF dir # "" THEN " " \o dir ELSE "")

\* the leading clause
LeadingClause(realDistance) ==
    IF realDistance # Null
    THEN "Objects are approximately "
         \o TenthsToString(RoundToTenths(realDistance[1])) \o " feet away. "
    ELSE "Objects detected. "

NoObjectsText ==
    "No specific objects detected. Try pointing at a clear object like a person, chair, or bottle."

RECURSIVE ObjectClauses(_, _, _)
ObjectClauses(top, index, realDistance) ==
    IF index >= Len(top) THEN ""
    ELSE ObjectClause(top[index + 1], index, realDistance)
         \o ObjectClauses(top, index + 1, realDistance)

\* description, from the filtered labels and the depth reading
Describe(physical, realDistance) ==
    IF Len(physical) > 0
    THEN LeadingClause(realDistance)
         \o ObjectClauses(topObjects(physical), 0, realDistance) \o "."
    ELSE NoObjectsText

(***************************************************************************)
(* Inputs the collaborators may produce.                                   *)
(***************************************************************************)
Box(l, t, w, h) == [Left |-> l, Top |-> t, Width |-> w, Height |-> h]
Label(name, instances) == [Name |-> name, Instances |-> instances]
Boxed(b) == [BoundingBox |-> Some(b)]
Unboxed == [BoundingBox |-> Null]

\* a chair occupying the left of the frame, and a scene label over the whole frame
ChairLabel == Label(Some("Chair"), Some(<<Boxed(Box(1, 4, 3, 3))>>))
InteriorDesignLabel == Label(Some("Interior Design"), Some(<<Boxed(Box(0, 0, 10, 10))>>))

\* label lists DetectLabels answers with in the cycle specification
Scenes ==
    { <<>>,
      <<ChairLabel, InteriorDesignLabel>>,
      << Label(Some("Person"), Some(<<Boxed(Box(3, 1, 5, 8))>>)),
         Label(Some("Bottle"), Some(<<Unboxed>>)),
         Label(Some("Wall"), Some(<<Boxed(Box(0, 0, 10, 10))>>)) >> }

\* getDepthAtCenter readings, in hundredths
DepthReadings == {0, 123}

Timestamps == 1..MaxTimestamp

\* errors are [code, message, text]; text is what toString() gives
CancelledError == [code |-> "CANCELLED", message |-> "User cancelled", text |-> "Error: User cancelled"]
CameraError == [code |-> "E_CAMERA", message |-> "Camera unavailable", text |-> "Error: Camera unavailable"]
NoImageDataError == [code |-> "", message |-> "No image data", text |-> "Error: No image data"]
TransportError == [code |-> "", message |-> "Network request failed", text |-> "Error: Network request failed"]

(***************************************************************************)
(* State.                                                                  *)
(***************************************************************************)
VARIABLES
    arkitPresent,      \* NativeModules.ARKitDepthModule is defined
    cameraPresent,     \* NativeModules.CameraModule is defined
    mounted,           \* the screen is mounted
    analyzing,         \* useState: the busy flag
    result,            \* useState: the text on screen
    hasLiDAR,          \* useState
    arSessionActive,   \* useState
    rendered,          \* the state values the last render closed over
    cleanupClosure,    \* the state values the effect's cleanup closed over (first render)
    lidarPc,           \* where checkLiDAR is
    depthStarts,       \* calls of ARKitDepthModule.startDepthSession
    depthStops,        \* calls of ARKitDepthModule.stopDepthSession
    cycles,            \* the takePicture invocations, in order of invocation
    synth              \* the synthesis run of the synthesis specification

vars == << arkitPresent, cameraPresent, mounted, analyzing, result, hasLiDAR,
           arSessionActive, rendered, cleanupClosure, lidarPc, depthStarts,
           depthStops, cycles, synth >>

envVars == << arkitPresent, cameraPresent >>
lidarVars == << lidarPc, depthStarts, depthStops, hasLiDAR, arSessionActive >>

CycleIds == 1..MaxCycles

\* a takePicture invocation that has not been made yet
IdleCycle ==
    [ pc |-> "idle",
      hasLiDAR |-> FALSE,        \* hasLiDAR as its closure sees it
      key |-> Null,
      labels |-> Null,           \* rekognitionResult.Labels || []
      physical |-> <<>>,         \* physicalObjects
      depth |-> "none",          \* getDepthAtCenter: "none", "read" or "rejected"
      realDistance |-> Null,
      narrated |-> <<>>,         \* the labels the forEach went through
      directions |-> <<>>,       \* the direction it computed for each
      description |-> Null,
      shown |-> Null,            \* result, as setResult(description) left it
      caught |-> Null,           \* the error the catch block got
      calls |-> <<>>,            \* the collaborator calls made, in order
      resultAtEnd |-> Null,      \* result and analyzing as the invocation returned
      analyzingAtEnd |-> Null ]

NoSynth == [stage |-> "off", labels |-> <<>>, realDistance |-> Null,
            physical |-> <<>>, narrated |-> <<>>, directions |-> <<>>,
            description |-> Null]

Call(op, arg) == [op |-> op, arg |-> arg]

InFlight(c) == cycles[c].pc \notin {"idle", "returned", "done"}

\* the component after its first render and the run of its effect
Constructed ==
    /\ mounted = TRUE
    /\ analyzing = FALSE
    /\ result = ""
    /\ hasLiDAR = FALSE
    /\ arSessionActive = FALSE
    /\ rendered = [analyzing |-> FALSE, hasLiDAR |-> FALSE]
    /\ cleanupClosure = [arSessionActive |-> FALSE]
    \* the effect has run checkLiDAR up to its first await
    /\ lidarPc = IF arkitPresent THEN "isLiDARAvailable" ELSE "done"
    /\ depthStarts = 0
    /\ depthStops = 0
    /\ cycles = [c \in CycleIds |-> IdleCycle]

Init ==
    /\ arkitPresent \in BOOLEAN
    /\ cameraPresent \in BOOLEAN
    /\ Constructed
    /\ synth = NoSynth

(***************************************************************************)
(* React: a render closes over the state of the moment; handlers and the   *)
(* button's disabled prop keep those values until the next render.  A      *)
(* setState schedules the render; it is committed before the JavaScript    *)
(* thread takes up the settlement of a native-module or network promise,   *)
(* so only a press already on its way can still run the handler of the     *)
(* previous render.                                                        *)
(***************************************************************************)
RenderPending ==
    mounted /\ rendered # [analyzing |-> analyzing, hasLiDAR |-> hasLiDAR]

Render ==
    /\ mounted
    /\ rendered # [analyzing |-> analyzing, hasLiDAR |-> hasLiDAR]
    /\ rendered' = [analyzing |-> analyzing, hasLiDAR |-> hasLiDAR]
    /\ UNCHANGED << envVars, mounted, analyzing, result, lidarVars, cleanupClosure,
                    cycles, synth >>

(***************************************************************************)
(* checkLiDAR and the effect's cleanup.                                    *)
(***************************************************************************)
\* isLiDARAvailable settles: setHasLiDAR(available); startDepthSession if available
IsLiDARAvailableReturn ==
    /\ lidarPc = "isLiDARAvailable"
    /\ ~RenderPending
    /\ \E outcome \in {"true", "false", "rejected"} :
          /\ hasLiDAR' = IF outcome = "rejected" THEN hasLiDAR ELSE (outcome = "true")
          /\ lidarPc' = IF outcome = "true" THEN "startDepthSession" ELSE "done"
          /\ depthStarts' = IF outcome = "true" THEN depthStarts + 1 ELSE depthStarts
    /\ UNCHANGED << envVars, mounted, analyzing, result, arSessionActive, rendered,
                    cleanupClosure, depthStops, cycles, synth >>

\* startDepthSession settles: setArSessionActive(true) unless it rejected
StartDepthSessionReturn ==
    /\ lidarPc = "startDepthSession"
    /\ ~RenderPending
    /\ \E ok \in BOOLEAN :
          arSessionActive' = IF ok THEN TRUE ELSE arSessionActive
    /\ lidarPc' = "done"
    /\ UNCHANGED << envVars, mounted, analyzing, result, hasLiDAR, rendered,
                    cleanupClosure, depthStarts, depthStops, cycles, synth >>

\* the effect's cleanup, run when the screen unmounts
Unmount ==
    /\ mounted
    /\ mounted' = FALSE
    /\ depthStops' = IF cleanupClosure.arSessionActive /\ arkitPresent
                     THEN depthStops + 1 ELSE depthStops
    /\ UNCHANGED << envVars, analyzing, result, hasLiDAR, arSessionActive, rendered,
                    cleanupClosure, lidarPc, depthStarts, cycles, synth >>

(***************************************************************************)
(* takePicture, one action per stretch between two awaits.  speakText is   *)
(* one call: it awaits Speech.stop and Speech.speak and swallows their     *)
(* errors (an alert), so it always returns to its caller.                  *)
(***************************************************************************)
SpeakText(cyc, text) == [cyc EXCEPT !.calls = Append(@, Call("speak", text))]

ApologyText == "Analysis failed. Please try again."

\* error?.message || error?.toString() || 'Unknown error'
errorDetails(error) ==
    IF error.message # "" THEN error.message
    ELSE IF error.text # "" THEN error.text
    ELSE "Unknown error"

\* the invocation returns: what is on screen and the busy flag are noted as it does
Returned(cyc) ==
    [cyc EXCEPT !.pc = "done",
                !.resultAtEnd = Some(result'),
                !.analyzingAtEnd = Some(analyzing')]

\* a variant of the catch block without the CANCELLED branch
Catch_IgnoringCancelled(c, cyc, error) ==
    /\ result' = "Analysis failed: " \o errorDetails(error)
    /\ analyzing' = analyzing
    /\ cycles' = [cycles EXCEPT
           ![c] = SpeakText([cyc EXCEPT !.caught = Some(error),
                                        !.pc = "speakError"], ApologyText)]

\* the catch block entered by cycle c, whose record is cyc, with error
Catch(c, cyc, error) ==
    IF error.code = "CANCELLED"
    THEN /\ result' = ""
         /\ analyzing' = FALSE
         /\ cycles' = [cycles EXCEPT
                ![c] = Returned([cyc EXCEPT !.caught = Some(error)])]
    ELSE /\ result' = "Analysis failed: " \o errorDetails(error)
         /\ analyzing' = analyzing
         /\ cycles' = [cycles EXCEPT
                ![c] = SpeakText([cyc EXCEPT !.caught = Some(error),
                                             !.pc = "speakError"], ApologyText)]

\* the labels the forEach goes through, and the direction it computes for each
Narrated(physical) ==
    IF Len(physical) > 0 THEN topObjects(physical) ELSE <<>>

DirectionsOf(top) == [i \in 1..Len(top) |-> ObjectDirectionOf(top[i])]

\* the description is built, shown and handed to speakText
ShowDescription(c, cyc, realDistance) ==
    LET description == Describe(cyc.physical, realDistance)
    IN  /\ result' = description
        /\ cycles' = [cycles EXCEPT
               ![c] = SpeakText([cyc EXCEPT !.realDistance = realDistance,
                                            !.narrated = Narrated(cyc.physical),
                                            !.directions = DirectionsOf(Narrated(cyc.physical)),
                                            !.description = Some(description),
                                            !.shown = Some(result'),
                                            !.pc = "speakDescription"], description)]

\* the capture button is pressed: takePicture as the last render defined it
TakePicture(c) ==
    /\ mounted
    /\ ~rendered.analyzing                       \* disabled={analyzing}
    /\ cycles[c].pc = "idle"
    /\ \A d \in CycleIds : d < c => cycles[d].pc # "idle"
    /\ IF rendered.analyzing \/ ~cameraPresent
       THEN /\ cycles' = [cycles EXCEPT ![c].pc = "returned"]
            /\ UNCHANGED analyzing
       ELSE /\ analyzing' = TRUE
            /\ cycles' = [cycles EXCEPT
                   ![c] = SpeakText([@ EXCEPT !.pc = "speakOpening",
                                              !.hasLiDAR = rendered.hasLiDAR],
                                    "Opening camera")]
    /\ UNCHANGED << envVars, mounted, result, lidarVars, rendered, cleanupClosure, synth >>

\* 'Opening camera' was spoken: CameraModule.takePicture is called
OpenCamera(c) ==
    /\ cycles[c].pc = "speakOpening"
    /\ ~RenderPending
    /\ cycles' = [cycles EXCEPT ![c].pc = "capture",
                                ![c].calls = Append(@, Call("capture", ""))]
    /\ UNCHANGED << envVars, mounted, analyzing, result, lidarVars, rendered,
                    cleanupClosure, synth >>

\* CameraModule.takePicture settles
CaptureReturn(c) ==
    /\ cycles[c].pc = "capture"
    /\ ~RenderPending
    /\ \/ /\ result' = "Analyzing image..."
          /\ cycles' = [cycles EXCEPT
                 ![c] = SpeakText([@ EXCEPT !.pc = "speakAnalyzing"], "Analyzing")]
          /\ UNCHANGED analyzing
       \/ \* no photo, or a photo without base64
          Catch(c, cycles[c], NoImageDataError)
       \/ \E error \in {CancelledError, CameraError} :
             Catch(c, cycles[c], error)
    /\ UNCHANGED << envVars, mounted, lidarVars, rendered, cleanupClosure, synth >>

ObjectKey(timestamp) == "analysis/" \o NatToString(timestamp) \o ".jpg"

\* 'Analyzing' was spoken: the key is made and the PutObjectCommand sent
SendUpload(c) ==
    /\ cycles[c].pc = "speakAnalyzing"
    /\ ~RenderPending
    /\ \E timestamp \in Timestamps :
          cycles' = [cycles EXCEPT
              ![c].pc = "upload",
              ![c].key = Some(ObjectKey(timestamp)),
              ![c].calls = Append(@, Call("upload", ObjectKey(timestamp)))]
    /\ UNCHANGED << envVars, mounted, analyzing, result, lidarVars, rendered,
                    cleanupClosure, synth >>

\* the upload settles: on success the DetectLabelsCommand is sent
UploadReturn(c) ==
    /\ cycles[c].pc = "upload"
    /\ ~RenderPending
    /\ \/ /\ cycles' = [cycles EXCEPT
                 ![c].pc = "detect",
                 ![c].calls = Append(@, Call("detect", cycles[c].key[1]))]
          /\ UNCHANGED << analyzing, result >>
       \/ Catch(c, cycles[c], TransportError)
    /\ UNCHANGED << envVars, mounted, lidarVars, rendered, cleanupClosure, synth >>

\* label detection settles: filter, then the depth read or the description
DetectReturn(c) ==
    /\ cycles[c].pc = "detect"
    /\ ~RenderPending
    /\ \/ \E allLabels \in Scenes :
             LET cyc == [cycles[c] EXCEPT !.labels = Some(allLabels),
                                          !.physical = physicalObjects(allLabels)]
             IN  IF cyc.hasLiDAR
                 THEN \* getARKitDistance
                      IF ~cyc.hasLiDAR \/ ~arkitPresent
                      THEN /\ ShowDescription(c, cyc, Null)
                           /\ UNCHANGED analyzing
                      ELSE /\ cycles' = [cycles EXCEPT
                                  ![c] = [cyc EXCEPT
                                      !.pc = "depth",
                                      !.calls = Append(@, Call("depth", ""))]]
                           /\ UNCHANGED << analyzing, result >>
                 ELSE /\ ShowDescription(c, cyc, Null)
                      /\ UNCHANGED analyzing
       \/ Catch(c, cycles[c], TransportError)
    /\ UNCHANGED << envVars, mounted, lidarVars, rendered, cleanupClosure, synth >>

DepthError == [code |-> "", message |-> "Depth unavailable", text |-> "Error: Depth unavailable"]

\* a variant of the depth read whose rejection reaches takePicture's catch block
DepthReturn_RejectionThrows(c) ==
    /\ cycles[c].pc = "depth"
    /\ ~RenderPending
    /\ \/ /\ \E distance \in DepthReadings :
                ShowDescription(c, [cycles[c] EXCEPT !.depth = "read"], Some(distance))
          /\ UNCHANGED analyzing
       \/ Catch(c, [cycles[c] EXCEPT !.depth = "rejected"], DepthError)
    /\ UNCHANGED << envVars, mounted, lidarVars, rendered, cleanupClosure, synth >>

\* getDepthAtCenter settles: a reading, or null when it rejected
DepthReturn(c) ==
    /\ cycles[c].pc = "depth"
    /\ ~RenderPending
    /\ \/ \E distance \in DepthReadings :
             ShowDescription(c, [cycles[c] EXCEPT !.depth = "read"], Some(distance))
       \/ ShowDescription(c, [cycles[c] EXCEPT !.depth = "rejected"], Null)
    /\ UNCHANGED << envVars, mounted, analyzing, lidarVars, rendered, cleanupClosure,
                    synth >>

\* the description or the apology was spoken: finally
Finally(c) ==
    /\ cycles[c].pc \in {"speakDescription", "speakError"}
    /\ ~RenderPending
    /\ analyzing' = FALSE
    /\ result' = result
    /\ cycles' = [cycles EXCEPT ![c] = Returned(@)]
    /\ UNCHANGED << envVars, mounted, lidarVars, rendered, cleanupClosure, synth >>

Next ==
    \/ Render
    \/ IsLiDARAvailableReturn
    \/ StartDepthSessionReturn
    \/ Unmount
    \/ \E c \in CycleIds :
          \/ TakePicture(c)
          \/ OpenCamera(c)
          \/ CaptureReturn(c)
          \/ SendUpload(c)
          \/ UploadReturn(c)
          \/ DetectReturn(c)
          \/ DepthReturn(c)
          \/ Finally(c)

Spec == Init /\ [][Next]_vars

(***************************************************************************)
(* The synthesis specification: the filter and the description of          *)
(* takePicture applied to label lists and depth readings drawn from        *)
(* bounded sets, with the component left as constructed.                   *)
(***************************************************************************)
\* every box on the grid of tenths that lies within MaxCoord
GridBoxes ==
    { Box(l, t, w, h) : l \in 0..MaxCoord, t \in 0..MaxCoord,
                        w \in 0..MaxCoord, h \in 0..MaxCoord }

FrameBoxes == { b \in GridBoxes : b.Left + b.Width <= MaxCoord /\ b.Top + b.Height <= MaxCoord }

LabelPool ==
    { ChairLabel,
      InteriorDesignLabel,
      Label(Some("Shopping Cart"), Some(<<Boxed(Box(6, 6, 4, 4))>>)),
      Label(Some("Bottle"), Some(<<>>)),
      Label(Some("Table"), Null),
      Label(Some("Person"), Some(<<Unboxed>>)),
      Label(Null, Some(<<Boxed(Box(3, 0, 4, 2)), Boxed(Box(0, 0, 1, 1))>>)) }

RECURSIVE SeqsUpTo(_, _)
SeqsUpTo(S, n) ==
    IF n = 0 THEN {<<>>}
    ELSE LET shorter == SeqsUpTo(S, n - 1)
         IN  shorter \cup { Append(q, x) : q \in shorter, x \in S }

SynthLabelLists ==
    SeqsUpTo(LabelPool, MaxLabels)
    \cup { <<Label(Some("Laptop"), Some(<<Boxed(b)>>))>> : b \in FrameBoxes }

SynthDistances == {Null, Some(0), Some(4), Some(123), Some(200)}

InitSynth ==
    /\ arkitPresent = TRUE
    /\ cameraPresent = TRUE
    /\ Constructed
    /\ \E allLabels \in SynthLabelLists, realDistance \in SynthDistances :
          synth = [NoSynth EXCEPT !.stage = "labels",
                                  !.labels = allLabels,
                                  !.realDistance = realDistance]

appVars == << arkitPresent, cameraPresent, mounted, analyzing, result, hasLiDAR,
              arSessionActive, rendered, cleanupClosure, lidarPc, depthStarts,
              depthStops, cycles >>

\* allLabels.filter
SynthFilter ==
    /\ synth.stage = "labels"
    /\ synth' = [synth EXCEPT !.stage = "filtered",
                              !.physical = physicalObjects(synth.labels)]
    /\ UNCHANGED appVars

\* the description built from physicalObjects and realDistance
SynthDescribe ==
    /\ synth.stage = "filtered"
    /\ synth' = [synth EXCEPT
           !.stage = "described",
           !.narrated = Narrated(synth.physical),
           !.directions = DirectionsOf(Narrated(synth.physical)),
           !.description = Some(Describe(synth.physical, synth.realDistance))]
    /\ UNCHANGED appVars

NextSynth == SynthFilter \/ SynthDescribe

SpecSynth == InitSynth /\ [][NextSynth]_vars

(***************************************************************************)
(* Vocabulary of the properties.                                           *)
(***************************************************************************)
StartsWith(s, prefix) ==
    Len(s) >= Len(prefix) /\ SubSeq(s, 1, Len(prefix)) = prefix

CountOp(calls, op) == Cardinality({ i \in DOMAIN calls : calls[i].op = op })

CountCall(calls, call) == Cardinality({ i \in DOMAIN calls : calls[i] = call })

DistanceBuckets ==
    { "2 to 3 feet", "4 to 6 feet", "8 to 10 feet", "12 to 15 feet", "more than 15 feet" }

\* the name a label is narrated under
NarratedName(label) ==
    IF label.Name = Null THEN "object" ELSE ToLowerCase(label.Name[1])

\* description has a per-object distance clause for the object called name
HasDistanceClause(description, name) ==
    \E bucket \in DistanceBuckets :
        Includes(description, "a " \o name \o " about " \o bucket \o " away")

\* description has no per-object distance clause at all
NoDistanceClause(description) ==
    \A bucket \in DistanceBuckets :
        ~Includes(description, " about " \o bucket \o " away")

(***************************************************************************)
(* C1.  At most one cycle is in flight: a takePicture invoked while an     *)
(* earlier invocation has not reached its final setAnalyzing(false)        *)
(* returns without calling the capture, upload, analysis or speech         *)
(* collaborators.  Stated of the code as written, presses that arrive      *)
(* before the re-render included.                                          *)
(***************************************************************************)
C1_OneCycleInFlight ==
    \A c, d \in CycleIds :
        (c < d /\ InFlight(c)) => cycles[d].calls = <<>>

(***************************************************************************)
(* C2.  When CameraModule.takePicture rejects with code 'CANCELLED' the    *)
(* cycle ends there: the calls it made are the 'Opening camera' utterance  *)
(* and the capture, nothing after; result is '' and analyzing is false as  *)
(* it returns.                                                             *)
(***************************************************************************)
C2_CancelledCaptureEndsCycle ==
    \A c \in CycleIds :
        LET cyc == cycles[c]
        IN  (cyc.caught # Null /\ cyc.caught[1].code = "CANCELLED") =>
                /\ cyc.pc = "done"
                /\ cyc.calls = << Call("speak", "Opening camera"), Call("capture", "") >>
                /\ cyc.resultAtEnd = Some("")
                /\ cyc.analyzingAtEnd = Some(FALSE)

\* C2, reached: a cycle has ended on a capture rejected with code 'CANCELLED'
C2_CancelledCycleReached ==
    \E c \in CycleIds :
        cycles[c].pc = "done" /\ cycles[c].caught = Some(CancelledError)

(***************************************************************************)
(* C3.  A cycle whose capture yields no image data, or whose upload or     *)
(* label detection fails, ends with result = 'Analysis failed: ' followed  *)
(* by the error's message, the apology handed to speech exactly once,      *)
(* analyzing false, and no call after the failing one but that apology.    *)
(***************************************************************************)
C3_FailureSurfaced ==
    \A c \in CycleIds :
        LET cyc == cycles[c]
            n == Len(cyc.calls)
        IN  (/\ cyc.pc = "done"
             /\ cyc.caught # Null
             /\ cyc.caught[1] \in {NoImageDataError, TransportError}) =>
                /\ cyc.resultAtEnd = Some("Analysis failed: " \o cyc.caught[1].message)
                /\ cyc.analyzingAtEnd = Some(FALSE)
                /\ CountCall(cyc.calls, Call("speak", ApologyText)) = 1
                /\ cyc.calls[n] = Call("speak", ApologyText)
                /\ cyc.calls[n - 1].op \in {"capture", "upload", "detect"}
                /\ \A op \in {"capture", "upload", "detect", "depth"} :
                       CountOp(cyc.calls, op) <= 1

(***************************************************************************)
(* C4.  Measured-distance priority: in a cycle with a narratable object    *)
(* and a non-null depth reading, the description starts with 'Objects are  *)
(* approximately D feet away. ', has no ' about <distance> away' clause,   *)
(* and still has each object's direction phrase.                           *)
(***************************************************************************)
C4_MeasuredDistancePriority ==
    \A c \in CycleIds :
        LET cyc == cycles[c]
        IN  (cyc.depth = "read" /\ cyc.description # Null /\ Len(cyc.physical) > 0) =>
                /\ StartsWith(cyc.description[1],
                       "Objects are approximately "
                       \o TenthsToString(RoundToTenths(cyc.realDistance[1]))
                       \o " feet away. ")
                /\ NoDistanceClause(cyc.description[1])
                /\ \A i \in DOMAIN cyc.narrated :
                       cyc.directions[i] # "" =>
                           Includes(cyc.description[1],
                                    "a " \o NarratedName(cyc.narrated[i])
                                    \o " " \o cyc.directions[i])

(***************************************************************************)
(* C5.  The objects narrated are the first min(3, k) elements, in upstream *)
(* order, of the k labels whose lowercased name contains no denylist entry *)
(* and that have at least one instance.                                    *)
(***************************************************************************)
ClaimDenylisted(label) ==
    /\ label.Name # Null
    /\ \E i \in DOMAIN excludeCategories :
          Includes(ToLowerCase(label.Name[1]), excludeCategories[i])

ClaimHasInstance(label) ==
    label.Instances # Null /\ label.Instances[1] # <<>>

ClaimEligible(labels) ==
    { i \in DOMAIN labels : ~ClaimDenylisted(labels[i]) /\ ClaimHasInstance(labels[i]) }

\* the r-th smallest element of a set of indices
Nth(indices, r) ==
    CHOOSE i \in indices : Cardinality({ j \in indices : j <= i }) = r

ClaimNarrated(labels) ==
    LET eligible == ClaimEligible(labels)
    IN  [r \in 1..Min(3, Cardinality(eligible)) |-> labels[Nth(eligible, r)]]

C5_NarratedObjects ==
    synth.stage = "described" =>
        /\ synth.narrated = ClaimNarrated(synth.labels)
        /\ (synth.description = Some(NoObjectsText)) <=> (synth.narrated = <<>>)
        /\ \A i \in DOMAIN synth.narrated :
               Includes(synth.description[1],
                        (IF i = 1 THEN "I see a " ELSE ", a ")
                        \o NarratedName(synth.narrated[i]))

\* C5, reached: more than three labels were eligible and three were narrated
C5_CapReached ==
    /\ synth.stage = "described"
    /\ Cardinality(ClaimEligible(synth.labels)) > 3
    /\ Len(synth.narrated) = 3

(***************************************************************************)
(* C6.  The end-to-end scenario: labels [chair, box left 0.1 top 0.4       *)
(* width 0.3 height 0.3; 'interior design'], no measured distance.  As the *)
(* claim has it the description names the '4 to 6 feet' bucket; the box's  *)
(* area is 0.09, which the thresholds put in '8 to 10 feet'.               *)
(***************************************************************************)
ScenarioLabels == <<ChairLabel, InteriorDesignLabel>>

InScenario(cyc) ==
    /\ cyc.labels = Some(ScenarioLabels)
    /\ cyc.description # Null
    /\ cyc.realDistance = Null

ScenarioOutcome(cyc, text) ==
    /\ cyc.physical = <<ChairLabel>>
    /\ cyc.description = Some(text)
    /\ cyc.shown = Some(text)
    /\ cyc.calls[Len(cyc.calls)] = Call("speak", text)

\* C6 as stated: the description displayed and spoken has the '4 to 6 feet' bucket
C6_ScenarioAsClaimed ==
    \A c \in CycleIds :
        InScenario(cycles[c]) =>
            ScenarioOutcome(cycles[c],
                "Objects detected. I see a chair about 4 to 6 feet away on your left.")

\* C6 as amended: the filter drops 'interior design' and the description displayed
\* and spoken is the same sentence with the '8 to 10 feet' bucket
C6_ScenarioDescription ==
    \A c \in CycleIds :
        InScenario(cycles[c]) =>
            ScenarioOutcome(cycles[c],
                "Objects detected. I see a chair about 8 to 10 feet away on your left.")

\* C6, reached: a cycle has run the scenario to its end
C6_ScenarioReached ==
    \E c \in CycleIds :
        InScenario(cycles[c]) /\ cycles[c].pc = "done"

(***************************************************************************)
(* C7.  The direction phrase of a box with centre (cx, cy): H is 'on your  *)
(* left' if cx < 0.3, 'on your right' if cx > 0.7, else 'in front of       *)
(* you'; V is 'above' if cy < 0.3, 'below' if cy > 0.7, else none; the     *)
(* phrase is 'V and H', 'V H' when H is 'in front of you', or H alone.     *)
(* Centres are in hundredths here: 0.3 is 30.                              *)
(***************************************************************************)
ClaimCx(box) == 10 * box.Left + 5 * box.Width
ClaimCy(box) == 10 * box.Top + 5 * box.Height

ClaimH(box) ==
    CASE ClaimCx(box) < 30 -> "on your left"
      [] ClaimCx(box) > 70 -> "on your right"
      [] OTHER -> "in front of you"

ClaimV(box) ==
    CASE ClaimCy(box) < 30 -> "above"
      [] ClaimCy(box) > 70 -> "below"
      [] OTHER -> "none"

ClaimDirection(box) ==
    CASE ClaimV(box) # "none" /\ ClaimH(box) # "in front of you" ->
             ClaimV(box) \o " and " \o ClaimH(box)
      [] ClaimV(box) # "none" /\ ClaimH(box) = "in front of you" ->
             ClaimV(box) \o " " \o ClaimH(box)
      [] OTHER -> ClaimH(box)

C7_DirectionPhrase ==
    synth.stage = "described" =>
        \A i \in DOMAIN synth.narrated :
            LET box == synth.narrated[i].Instances[1][1].BoundingBox
                last == (i = Len(synth.narrated))
            IN  box # Null =>
                    /\ synth.directions[i] = ClaimDirection(box[1])
                    /\ Includes(synth.description[1],
                                " " \o ClaimDirection(box[1])
                                \o (IF last THEN "." ELSE ", a "))
                    /\ (ClaimCx(box[1]) = 10 /\ ClaimCy(box[1]) = 10) =>
                           synth.directions[i] = "above and on your left"
                    /\ (ClaimCx(box[1]) = 90 /\ ClaimCy(box[1]) = 90) =>
                           synth.directions[i] = "below and on your right"
                    /\ (ClaimCx(box[1]) = 50 /\ ClaimCy(box[1]) = 50) =>
                           synth.directions[i] = "in front of you"

\* C7, reached: a box with cx = 0.3, on the threshold, and cy < 0.3 was described
C7_ThresholdBoxDescribed ==
    /\ synth.stage = "described"
    /\ \E i \in DOMAIN synth.narrated :
          LET box == synth.narrated[i].Instances[1][1].BoundingBox
          IN  /\ box # Null
              /\ ClaimCx(box[1]) = 30
              /\ ClaimCy(box[1]) < 30
              /\ synth.directions[i] = "above in front of you"

(***************************************************************************)
(* C8.  A depth read failure is not surfaced: when getDepthAtCenter        *)
(* rejects, getARKitDistance yields null, the cycle stays off the error    *)
(* path, and the description has the size-based form.  As the claim has    *)
(* it that form is 'Objects detected. ' and a distance clause per boxed    *)
(* object in every such cycle; with no narratable object the description   *)
(* is the fixed fallback sentence instead.                                 *)
(***************************************************************************)
NotSurfaced(cyc) ==
    /\ cyc.realDistance = Null
    /\ cyc.caught = Null
    /\ cyc.pc \in {"speakDescription", "done"}
    /\ CountCall(cyc.calls, Call("speak", ApologyText)) = 0
    /\ cyc.shown = cyc.description
    /\ ~StartsWith(cyc.shown[1], "Analysis failed")

SizeBasedForm(cyc) ==
    /\ StartsWith(cyc.description[1], "Objects detected. ")
    /\ \A i \in DOMAIN cyc.narrated :
           cyc.narrated[i].Instances[1][1].BoundingBox # Null =>
               HasDistanceClause(cyc.description[1], NarratedName(cyc.narrated[i]))

\* C8 as stated: every cycle whose depth read rejects stays off the error path and
\* describes in the size-based form
C8_DepthFailureAsClaimed ==
    \A c \in CycleIds :
        cycles[c].depth = "rejected" =>
            NotSurfaced(cycles[c]) /\ SizeBasedForm(cycles[c])

\* C8 as amended: it stays off the error path; with a narratable object the
\* description has the size-based form, with none it is the fallback sentence
C8_DepthFailureDegrades ==
    \A c \in CycleIds :
        cycles[c].depth = "rejected" =>
            /\ NotSurfaced(cycles[c])
            /\ IF Len(cycles[c].physical) > 0
               THEN SizeBasedForm(cycles[c])
               ELSE cycles[c].description = Some(NoObjectsText)

\* C8, reached: a cycle whose depth read rejected narrated a boxed object and ended
C8_DepthFailureReached ==
    \E c \in CycleIds :
        /\ cycles[c].depth = "rejected"
        /\ cycles[c].pc = "done"
        /\ \E i \in DOMAIN cycles[c].narrated :
              cycles[c].narrated[i].Instances[1][1].BoundingBox # Null

(***************************************************************************)
(* C9.  Within a cycle the label-detection request follows the successful  *)
(* upload and names the key the upload wrote; a failed upload means no     *)
(* label-detection request; and an upload and a label-detection request    *)
(* are never both outstanding.                                             *)
(***************************************************************************)
C9_UploadThenDetect ==
    /\ \A c \in CycleIds :
          LET calls == cycles[c].calls
          IN  /\ \A i \in DOMAIN calls :
                     calls[i].op = "detect" =>
                         /\ i > 1
                         /\ calls[i - 1] = Call("upload", calls[i].arg)
              /\ (cycles[c].caught = Some(TransportError) /\ CountOp(calls, "detect") = 0)
                     => CountOp(calls, "depth") = 0
    /\ \A c, d \in CycleIds :
          ~(cycles[c].pc = "upload" /\ cycles[d].pc = "detect")

(***************************************************************************)
(* C10.  The depth session is started at most once and is torn down on     *)
(* shutdown: when the screen unmounts with arSessionActive true,           *)
(* stopDepthSession is called.                                             *)
(***************************************************************************)
C10_SessionStoppedOnUnmount ==
    /\ [](depthStarts <= 1)
    /\ [][(mounted /\ ~mounted' /\ arSessionActive) => depthStops' = depthStops + 1]_vars

====
